---- MODULE Spec2Model ----
(***************************************************************************)
(* volta_accelerate.py: one run of the conversion script.                  *)
(*                                                                         *)
(* The script parses its arguments, then runs at most one of two           *)
(* pipelines: convert_to_onnx (the exporter) or convert_to_trt (the        *)
(* compiler).  Every call into torch, diffusers, onnx, onnxconverter and   *)
(* tensorrt is an opaque blocking call; its outcome (a value, None, or a   *)
(* raised exception) is chosen nondeterministically.  The file system is   *)
(* part of the state: it is what one run leaves for the next.              *)
(***************************************************************************)
EXTENDS Integers, Sequences, FiniteSets

\* ------------------------------------------------------------------ bounds
MaxBatch == 2
MaxDim == 9
MaxSeq == 1
MaxErrors == 1

\* ------------------------------------------------------- program constants
DefaultBatchSize == 1
DefaultImgDim == 512
DefaultMaxSeqLength == 77
DefaultMaxGpuMemory == 15
LatentScale == 8
LatentChannels == 4
EmbedDim == 768
SampleBatch == 2
CheckSeqLength == 12

\* ---------------------------------------------------------------- paths
\* A path is the sequence of its components; "./a/b" is <<".", "a", "b">>.
RECURSIVE Normalize(_)
Normalize(p) ==
    IF p = <<>> THEN <<>>
    ELSE IF Head(p) = "." THEN Normalize(Tail(p))
    ELSE <<Head(p)>> \o Normalize(Tail(p))

Fp16SourceMutant == <<"unet", "model_fp16.onnx">>
GraphFileMutant == <<".", "unet.engine">>

UnetDir == <<"unet">>
OnnxPath == <<"unet", "model.onnx">>
Fp16Source == <<"unet", "model.onnx">>
Fp16Path == <<"unet", "model_fp16.onnx">>
GraphFile == <<".", "unet", "model.onnx">>
DefaultSavePath == <<"unet.engine">>

Nodes == {UnetDir, OnnxPath, Fp16Path, DefaultSavePath}

Parent(p) == SubSeq(p, 1, Len(p) - 1)

\* ------------------------------------------------------- file system
\* kind: none | dir | file.  data: what the file holds.  run: "this" when the
\* entry was written by the running process, "earlier" when it was there at
\* start.  src: for a reduced-precision graph, the run that wrote the
\* full-precision file it was derived from.
NoEntry == [kind |-> "none", data |-> "none", run |-> "none", src |-> "none"]
Dir(r) == [kind |-> "dir", data |-> "none", run |-> r, src |-> "none"]
File(d, r, s) == [kind |-> "file", data |-> d, run |-> r, src |-> s]

\* A file that holds a well-formed graph, full or reduced precision.
IsGraph(e) == e.kind = "file" /\ e.data \in {"onnx32", "onnx16"}

Exists(files, p) == files[Normalize(p)].kind # "none"

\* A file can be created or opened for writing when its parent directory is
\* a directory (the working directory always is) and the path itself is not
\* a directory.
Writable(files, p) ==
    LET q == Normalize(p) IN
    /\ files[q].kind # "dir"
    /\ Parent(q) # <<>> => files[Parent(q)].kind = "dir"

InitialFileSystems ==
    LET Graphs == {NoEntry, File("onnx32", "earlier", "none"),
                   File("empty", "earlier", "none"), File("invalid", "earlier", "none")}
        Halves == {NoEntry, File("onnx16", "earlier", "earlier")}
        Engines == {NoEntry, File("engine", "earlier", "none")}
    IN  {files \in [Nodes -> {NoEntry, Dir("earlier")} \cup Graphs \cup Halves \cup Engines] :
            /\ files[UnetDir] \in {NoEntry, Dir("earlier"), File("invalid", "earlier", "none")}
            /\ files[OnnxPath] \in Graphs
            /\ files[Fp16Path] \in Halves
            /\ files[DefaultSavePath] \in Engines
            /\ files[UnetDir].kind # "dir" =>
                   files[OnnxPath] = NoEntry /\ files[Fp16Path] = NoEntry}

\* ------------------------------------------------------- get_args
Modes == {"onnx", "trt", "other"}
ModelPaths == {"runwayml/stable-diffusion-v1-5", "local/model"}
SavePaths == {DefaultSavePath, <<".", "unet", "model.onnx">>}
BatchSizes == DefaultBatchSize .. MaxBatch
ImgDims == (LatentScale .. MaxDim) \cup {DefaultImgDim}
SeqLengths == (1 .. MaxSeq) \cup {CheckSeqLength, DefaultMaxSeqLength}

get_args ==
    [model_path : ModelPaths,
     save_path : SavePaths,
     batch_size : BatchSizes,
     img_size : ImgDims \X ImgDims,
     max_seq_length : SeqLengths,
     max_gpu_memory : {DefaultMaxGpuMemory},
     onnx_trt : Modes]

VARIABLES
    args,               \* the parsed run configuration
    pc,                 \* position of the process
    fs,                 \* the file system
    fs0,                \* the file system when the process started
    device,             \* "cpu" | "cuda"
    unet,               \* "unset" | "loaded" | "deleted"
    check_inputs,       \* <<>> or the two sample input tuples (shapes)
    traced_model,       \* "unset" | "traced"
    new_onnx_model,     \* NoEntry or the converted graph held in memory
    parse_success,      \* result of parse_from_file
    num_errors,         \* onnx_parser.num_errors
    profile,            \* <<>> or the optimization profile's shapes
    config,             \* builder configuration
    serialized_engine,  \* "unset" | "None" | "engine"
    f,                  \* <<>> or the path of the open engine file
    stdout,             \* lines printed on standard output
    stderr,             \* lines printed on standard error
    exit_status,        \* <<>> while running, <<code>> once exited
    steps,              \* the library calls made so far, in order
    raised,             \* the step that raised or exited, or "none"
    io                  \* file accesses: <<pipeline, mode, path>>

vars == <<args, pc, fs, fs0, device, unet, check_inputs, traced_model,
          new_onnx_model, parse_success, num_errors, profile, config,
          serialized_engine, f, stdout, stderr, exit_status, steps, raised, io>>

onnxVars == <<device, unet, check_inputs, traced_model, new_onnx_model>>
trtVars == <<parse_success, num_errors, profile, config, serialized_engine, f>>
outVars == <<stdout, stderr, exit_status, raised>>

NoConfig == [profiles |-> {}, workspace_gib |-> 0, fp16 |-> FALSE]

Init ==
    /\ args \in get_args
    /\ pc = "main"
    /\ fs \in InitialFileSystems
    /\ fs0 = fs
    /\ device = "cpu"
    /\ unet = "unset"
    /\ check_inputs = <<>>
    /\ traced_model = "unset"
    /\ new_onnx_model = NoEntry
    /\ parse_success = FALSE
    /\ num_errors = 0
    /\ profile = <<>>
    /\ config = NoConfig
    /\ serialized_engine = "unset"
    /\ f = <<>>
    /\ stdout = <<>>
    /\ stderr = <<>>
    /\ exit_status = <<>>
    /\ steps = <<>>
    /\ raised = "none"
    /\ io = {}

\* An uncaught exception at step s: traceback on standard error, status 1.
Raise(s) ==
    /\ pc' = "exited"
    /\ stderr' = Append(stderr, "Traceback")
    /\ exit_status' = <<1>>
    /\ raised' = s

\* ------------------------------------------------------- __main__
RunsExporterMutant(a) == a.onnx_trt # "trt"

RunsExporter(a) == a.onnx_trt = "onnx"
RunsCompiler(a) == a.onnx_trt = "trt"

Main ==
    /\ pc = "main"
    /\ pc' = IF RunsExporter(args) THEN "load" ELSE "flush"
    /\ UNCHANGED <<args, fs, fs0, onnxVars, trtVars, outVars, steps, io>>

Flush ==
    /\ pc = "flush"
    /\ pc' = "main_trt"
    /\ UNCHANGED <<args, fs, fs0, onnxVars, trtVars, outVars, steps, io>>

MainTrt ==
    /\ pc = "main_trt"
    /\ IF RunsCompiler(args)
         THEN /\ pc' = "trt_init"
              /\ UNCHANGED exit_status
         ELSE /\ pc' = "exited"
              /\ exit_status' = <<0>>
    /\ UNCHANGED <<args, fs, fs0, onnxVars, trtVars, stdout, stderr, raised, steps, io>>

\* ------------------------------------------------------- convert_to_onnx
h_w(a) == <<a.img_size[1] \div LatentScale, a.img_size[2] \div LatentScale>>

\* The two sample input tuples, as tensor shapes (and the timestep's value).
CheckInputs(a) ==
    LET h == h_w(a)[1]
        w == h_w(a)[2]
    IN  << [latent |-> <<SampleBatch, LatentChannels, h, w>>,
            t |-> <<1>>, t_value |-> 980,
            embed |-> <<SampleBatch, a.max_seq_length, EmbedDim>>,
            flag1 |-> <<>>, flag2 |-> <<>>],
           [latent |-> <<SampleBatch, LatentChannels, h, w>>,
            t |-> <<1>>, t_value |-> 910,
            embed |-> <<SampleBatch, CheckSeqLength, EmbedDim>>,
            flag1 |-> <<>>, flag2 |-> <<>>] >>

\* device selection and UNet2DConditionModel.from_pretrained(...).to(device)
Load ==
    /\ pc = "load"
    /\ steps' = Append(steps, "load")
    /\ \E cuda \in BOOLEAN : device' = IF cuda THEN "cuda" ELSE "cpu"
    /\ \/ /\ unet' = "loaded"
          /\ pc' = "makedirs"
          /\ UNCHANGED outVars
       \/ /\ Raise("load")
          /\ UNCHANGED <<unet, stdout>>
    /\ UNCHANGED <<args, fs, fs0, check_inputs, traced_model, new_onnx_model, trtVars, io>>

\* if not os.path.exists("unet"): os.makedirs("unet")
MakeDirs ==
    /\ pc = "makedirs"
    /\ IF Exists(fs, UnetDir)
         THEN /\ pc' = "sample"
              /\ UNCHANGED <<fs, io, steps, outVars>>
         ELSE /\ steps' = Append(steps, "makedirs")
              /\ \/ /\ fs' = [fs EXCEPT ![UnetDir] = Dir("this")]
                    /\ io' = io \cup {<<"onnx", "mkdir", UnetDir>>}
                    /\ pc' = "sample"
                    /\ UNCHANGED outVars
                 \/ /\ Raise("makedirs")
                    /\ UNCHANGED <<fs, io, stdout>>
    /\ UNCHANGED <<args, fs0, onnxVars, trtVars>>

\* height, width, h, w and the two check_inputs tuples
Sample ==
    /\ pc = "sample"
    /\ check_inputs' = CheckInputs(args)
    /\ pc' = "trace"
    /\ UNCHANGED <<args, fs, fs0, device, unet, traced_model, new_onnx_model,
                   trtVars, outVars, steps, io>>

\* torch.jit.trace(unet, check_inputs[0], check_inputs=[check_inputs[1]])
Trace ==
    /\ pc = "trace"
    /\ steps' = Append(steps, "trace")
    /\ \/ /\ traced_model' = "traced"
          /\ pc' = "export"
          /\ UNCHANGED outVars
       \/ /\ Raise("trace")
          /\ UNCHANGED <<traced_model, stdout>>
    /\ UNCHANGED <<args, fs, fs0, device, unet, check_inputs, new_onnx_model, trtVars, io>>

\* torch.onnx.export(traced_model, check_inputs[0], "unet/model.onnx", ...)
Export ==
    /\ pc = "export"
    /\ steps' = Append(steps, "export")
    /\ \/ /\ Writable(fs, OnnxPath)
          /\ fs' = [fs EXCEPT ![Normalize(OnnxPath)] = File("onnx32", "this", "none")]
          /\ io' = io \cup {<<"onnx", "w", Normalize(OnnxPath)>>}
          /\ pc' = "fp16"
          /\ UNCHANGED outVars
       \/ /\ Writable(fs, OnnxPath)
          /\ fs' = [fs EXCEPT ![Normalize(OnnxPath)] = File("invalid", "this", "none")]
          /\ io' = io \cup {<<"onnx", "w", Normalize(OnnxPath)>>}
          /\ Raise("export")
          /\ UNCHANGED stdout
       \/ /\ Raise("export")
          /\ UNCHANGED <<fs, io, stdout>>
    /\ UNCHANGED <<args, fs0, onnxVars, trtVars>>

\* onnxconverter_common.convert_float_to_float16_model_path("unet/model.onnx", ...)
ConvertFp16 ==
    /\ pc = "fp16"
    /\ steps' = Append(steps, "fp16")
    /\ io' = io \cup {<<"onnx", "r", Normalize(Fp16Source)>>}
    /\ \/ /\ IsGraph(fs[Normalize(Fp16Source)])
          /\ new_onnx_model' = File("onnx16", "none", fs[Normalize(Fp16Source)].run)
          /\ pc' = "save"
          /\ UNCHANGED outVars
       \/ /\ Raise("fp16")
          /\ UNCHANGED <<new_onnx_model, stdout>>
    /\ UNCHANGED <<args, fs, fs0, device, unet, check_inputs, traced_model, trtVars>>

\* onnx.save(new_onnx_model, "unet/model_fp16.onnx")
Save ==
    /\ pc = "save"
    /\ steps' = Append(steps, "save")
    /\ \/ /\ Writable(fs, Fp16Path)
          /\ fs' = [fs EXCEPT ![Normalize(Fp16Path)] =
                        File(new_onnx_model.data, "this", new_onnx_model.src)]
          /\ io' = io \cup {<<"onnx", "w", Normalize(Fp16Path)>>}
          /\ pc' = "cleanup"
          /\ UNCHANGED outVars
       \/ /\ Writable(fs, Fp16Path)
          /\ fs' = [fs EXCEPT ![Normalize(Fp16Path)] = File("invalid", "this", "none")]
          /\ io' = io \cup {<<"onnx", "w", Normalize(Fp16Path)>>}
          /\ Raise("save")
          /\ UNCHANGED stdout
       \/ /\ Raise("save")
          /\ UNCHANGED <<fs, io, stdout>>
    /\ UNCHANGED <<args, fs0, onnxVars, trtVars>>

\* del unet, new_onnx_model; torch.cuda.empty_cache(); gc.collect()
Cleanup ==
    /\ pc = "cleanup"
    /\ unet' = "deleted"
    /\ new_onnx_model' = NoEntry
    /\ pc' = "flush"
    /\ UNCHANGED <<args, fs, fs0, device, check_inputs, traced_model,
                   trtVars, outVars, steps, io>>

convert_to_onnx == Load \/ MakeDirs \/ Sample \/ Trace \/ Export \/ ConvertFp16 \/ Save \/ Cleanup

\* ------------------------------------------------------- convert_to_trt
\* What parse_from_file can return for the file it is given: a missing, empty
\* or malformed file never parses; an exported graph parses unless the
\* parser rejects it (an operator it does not support).
ParseOutcomes(files, p) ==
    IF IsGraph(files[Normalize(p)]) THEN BOOLEAN ELSE {FALSE}

ParseFailedMutant(ok) == ok

ParseFailed(ok) == ~ok

latents_shapeUndoubled(a) ==
    <<a.batch_size, LatentChannels,
      a.img_size[1] \div LatentScale, a.img_size[2] \div LatentScale>>

latents_shapeRoundUp(a) ==
    <<a.batch_size * 2, LatentChannels,
      (a.img_size[1] + LatentScale - 1) \div LatentScale,
      (a.img_size[2] + LatentScale - 1) \div LatentScale>>

latents_shape(a) ==
    <<a.batch_size * 2, LatentChannels,
      a.img_size[1] \div LatentScale, a.img_size[2] \div LatentScale>>

embed_shape(a) == <<a.batch_size * 2, a.max_seq_length, EmbedDim>>

timestep_shape(a) == <<a.batch_size>>

set_shape(min, opt, max) == [min |-> min, opt |-> opt, max |-> max]

WriteRejectsMutant(engine) == FALSE

\* f.write(x) raises TypeError when x is None
WriteRejects(engine) == engine = "None"

EngineBytes(engine) == IF engine = "None" THEN "empty" ELSE "engine"

\* trt.Logger, trt.Builder, create_network, trt.OnnxParser
TrtInit ==
    /\ pc = "trt_init"
    /\ steps' = Append(steps, "trt_init")
    /\ \/ /\ pc' = "parse"
          /\ UNCHANGED outVars
       \/ /\ Raise("trt_init")
          /\ UNCHANGED stdout
    /\ UNCHANGED <<args, fs, fs0, onnxVars, trtVars, io>>

\* parse_success = onnx_parser.parse_from_file("./unet/model.onnx")
Parse ==
    /\ pc = "parse"
    /\ steps' = Append(steps, "parse")
    /\ io' = io \cup {<<"trt", "r", Normalize(GraphFile)>>}
    /\ parse_success' \in ParseOutcomes(fs, GraphFile)
    /\ num_errors' \in 0 .. MaxErrors
    /\ pc' = "print_errors"
    /\ UNCHANGED <<args, fs, fs0, onnxVars, profile, config, serialized_engine, f, outVars>>

\* for idx in range(onnx_parser.num_errors): print(onnx_parser.get_error(idx))
PrintErrors ==
    /\ pc = "print_errors"
    /\ stdout' = stdout \o [idx \in 1 .. num_errors |-> "parse error"]
    /\ pc' = "check_parse"
    /\ UNCHANGED <<args, fs, fs0, onnxVars, trtVars, stderr, exit_status, raised, steps, io>>

\* if not parse_success: sys.exit("ONNX model parsing failed")
CheckParse ==
    /\ pc = "check_parse"
    /\ IF ParseFailed(parse_success)
         THEN /\ pc' = "exited"
              /\ stderr' = Append(stderr, "ONNX model parsing failed")
              /\ exit_status' = <<1>>
              /\ raised' = "parse"
         ELSE /\ pc' = "configure"
              /\ UNCHANGED <<stderr, exit_status, raised>>
    /\ UNCHANGED <<args, fs, fs0, onnxVars, trtVars, stdout, steps, io>>

\* create_builder_config, create_optimization_profile, the three set_shape
\* calls, add_optimization_profile, set_memory_pool_limit, set_flag(FP16)
Configure ==
    /\ pc = "configure"
    /\ profile' = [latent_model_input |->
                       set_shape(latents_shape(args), latents_shape(args), latents_shape(args)),
                   encoder_hidden_states |->
                       set_shape(embed_shape(args), embed_shape(args), embed_shape(args)),
                   t |-> set_shape(timestep_shape(args), timestep_shape(args),
                                   timestep_shape(args))]
    /\ config' = [profiles |-> {profile'},
                  workspace_gib |-> args.max_gpu_memory * 1,
                  fp16 |-> TRUE]
    /\ pc' = "build"
    /\ UNCHANGED <<args, fs, fs0, onnxVars, parse_success, num_errors,
                   serialized_engine, f, outVars, steps, io>>

\* serialized_engine = TRT_BUILDER.build_serialized_network(network, config)
\* The builder returns the engine, returns None when the build fails, or raises.
Build ==
    /\ pc = "build"
    /\ steps' = Append(steps, "build")
    /\ \/ /\ serialized_engine' \in {"engine", "None"}
          /\ pc' = "open"
          /\ UNCHANGED outVars
       \/ /\ Raise("build")
          /\ UNCHANGED <<serialized_engine, stdout>>
    /\ UNCHANGED <<args, fs, fs0, onnxVars, parse_success, num_errors, profile, config, f, io>>

\* with open(args.save_path, "wb") as f:
Open ==
    /\ pc = "open"
    /\ steps' = Append(steps, "open")
    /\ \/ /\ Writable(fs, args.save_path)
          /\ fs' = [fs EXCEPT ![Normalize(args.save_path)] = File("empty", "this", "none")]
          /\ f' = Normalize(args.save_path)
          /\ io' = io \cup {<<"trt", "w", Normalize(args.save_path)>>}
          /\ pc' = "write"
          /\ UNCHANGED outVars
       \/ /\ Raise("open")
          /\ UNCHANGED <<fs, f, io, stdout>>
    /\ UNCHANGED <<args, fs0, onnxVars, parse_success, num_errors, profile, config,
                   serialized_engine>>

\* f.write(serialized_engine), then the with block closes f
Write ==
    /\ pc = "write"
    /\ steps' = Append(steps, "write")
    /\ f' = <<>>
    /\ IF WriteRejects(serialized_engine)
         THEN /\ Raise("write")
              /\ UNCHANGED <<fs, stdout>>
         ELSE \/ /\ fs' = [fs EXCEPT ![f] = File(EngineBytes(serialized_engine), "this", "none")]
                 /\ pc' = "print_saved"
                 /\ UNCHANGED outVars
              \/ /\ \E d \in {"empty", "invalid"} :
                        fs' = [fs EXCEPT ![f] = File(d, "this", "none")]
                 /\ Raise("write")
                 /\ UNCHANGED stdout
    /\ UNCHANGED <<args, fs0, onnxVars, parse_success, num_errors, profile, config,
                   serialized_engine, io>>

\* print(f"Engine is saved to {args.save_path}"), return, end of the script
PrintSaved ==
    /\ pc = "print_saved"
    /\ stdout' = Append(stdout, "Engine is saved")
    /\ pc' = "exited"
    /\ exit_status' = <<0>>
    /\ UNCHANGED <<args, fs, fs0, onnxVars, trtVars, stderr, raised, steps, io>>

convert_to_trt ==
    TrtInit \/ Parse \/ PrintErrors \/ CheckParse \/ Configure \/ Build \/ Open \/ Write
        \/ PrintSaved

Next == Main \/ Flush \/ MainTrt \/ convert_to_onnx \/ convert_to_trt

Spec == Init /\ [][Next]_vars

\* =================================================================
\* Properties
\* =================================================================
Ran(s) == \E i \in DOMAIN steps : steps[i] = s

OnnxSteps == {"load", "makedirs", "trace", "export", "fp16", "save"}
TrtSteps == {"trt_init", "parse", "build", "open", "write"}

ExporterRan == (\E s \in OnnxSteps : Ran(s)) \/ check_inputs # <<>>
CompilerRan == (\E s \in TrtSteps : Ran(s)) \/ profile # <<>>

Exited == pc = "exited"
SavedAt == Normalize(args.save_path)

\* C1: one run executes at most one pipeline: mode "onnx" runs the exporter
\* and never the compiler, mode "trt" runs the compiler and never the
\* exporter, any other mode runs neither, changes no file and exits with
\* status 0.
C1_AtMostOnePipeline ==
    /\ ~(ExporterRan /\ CompilerRan)
    /\ args.onnx_trt = "onnx" => ~CompilerRan /\ (Exited => Ran("load"))
    /\ args.onnx_trt = "trt" => ~ExporterRan /\ (Exited => Ran("trt_init"))
    /\ args.onnx_trt \notin {"onnx", "trt"} =>
           /\ ~ExporterRan /\ ~CompilerRan
           /\ fs = fs0 /\ io = {}
           /\ Exited => exit_status = <<0>>

C1_OtherModeExited ==
    Exited /\ args.onnx_trt = "other" /\ exit_status = <<0>> /\ steps = <<>>

\* C2: when the compiler runs and parsing the graph file fails, the run
\* prints at least one diagnostic line and ends with a non-zero status,
\* without reaching the build step and without creating or writing the file
\* at the save path.
ParseFailedRun == Ran("parse") /\ ~parse_success

C2_ParseFailureExits ==
    ParseFailedRun =>
        /\ pc \in {"print_errors", "check_parse", "exited"}
        /\ ~Ran("build") /\ ~Ran("open") /\ ~Ran("write")
        /\ serialized_engine = "unset"
        /\ fs = fs0
        /\ \A e \in io : e[2] # "w"
        /\ Exited =>
               /\ exit_status # <<0>>
               /\ Len(stdout) + Len(stderr) >= 1

C2_EmptyGraphFileExited ==
    /\ ParseFailedRun /\ Exited
    /\ fs0[<<"unet", "model.onnx">>].data = "empty"
    /\ num_errors = 0

\* C3 as stated: for a graph file produced by the exporter, a terminating
\* compiler run ends in exactly one of: a non-empty engine file at the save
\* path, or a non-zero status.
GraphFromExporter ==
    /\ args.onnx_trt = "trt"
    /\ fs0[<<"unet", "model.onnx">>] = File("onnx32", "earlier", "none")

EngineFileNonEmpty == fs[SavedAt].kind = "file" /\ fs[SavedAt].data = "engine"

C3_ExactlyOneOutcome ==
    (GraphFromExporter /\ Exited) =>
        /\ EngineFileNonEmpty \/ exit_status # <<0>>
        /\ ~(EngineFileNonEmpty /\ exit_status # <<0>>)

\* C3 as amended: such a run ends with a non-empty engine file at the save
\* path or with a non-zero status (both when a failed run leaves an engine
\* file that was already there); it never exits with status 0 while the
\* engine file is missing or empty, and on status 0 the engine file is the
\* one this run wrote.
C3_EngineOrNonZero ==
    (GraphFromExporter /\ Exited) =>
        /\ EngineFileNonEmpty \/ exit_status # <<0>>
        /\ exit_status = <<0>> => fs[SavedAt] = File("engine", "this", "none")

C3_EngineWritten ==
    GraphFromExporter /\ Exited /\ exit_status = <<0>> /\ EngineFileNonEmpty

\* C4: the compiler declares one optimization profile in which each of the
\* three named inputs has min = opt = max: latent_model_input is
\* (2*B, 4, H div 8, W div 8), encoder_hidden_states is (2*B, L, 768), t is
\* one fixed shape.
C4_ProfileShapes ==
    profile # <<>> =>
        LET B == args.batch_size
            H == args.img_size[1]
            W == args.img_size[2]
            L == args.max_seq_length
        IN  /\ config.profiles = {profile}
            /\ DOMAIN profile = {"latent_model_input", "encoder_hidden_states", "t"}
            /\ \A n \in DOMAIN profile :
                   profile[n].min = profile[n].opt /\ profile[n].opt = profile[n].max
            /\ profile["latent_model_input"].min = <<2 * B, 4, H \div 8, W \div 8>>
            /\ profile["encoder_hidden_states"].min = <<2 * B, L, 768>>
            /\ Len(profile["t"].min) = 1

C4_ProfileDeclared ==
    /\ profile # <<>>
    /\ args.batch_size = 2
    /\ args.img_size = <<9, 512>>
    /\ args.max_seq_length = 77

\* C5 as stated: the graph file the compiler reads is one of the two files a
\* successful exporter run writes, and the compiler writes only to the save
\* path, never to the exporter's output files.
ExporterOutputs == {<<"unet", "model.onnx">>, <<"unet", "model_fp16.onnx">>}

Accessed(pipeline, mode) == {e[3] : e \in {x \in io : x[1] = pipeline /\ x[2] = mode}}

Changed == {n \in Nodes : fs[n] # fs0[n]}

C5_CompilerNeverWritesExporterFiles ==
    /\ Accessed("trt", "r") \subseteq ExporterOutputs
    /\ Accessed("trt", "w") \subseteq {SavedAt}
    /\ Accessed("trt", "w") \cap ExporterOutputs = {}

\* C5 as amended: the graph file the compiler reads is one of the two files a
\* successful exporter run writes, and the compiler writes only to the save
\* path; it overwrites an exporter output file only when the save path names
\* that file.
C5_FileHandoff ==
    /\ Accessed("trt", "r") \subseteq ExporterOutputs
    /\ Accessed("trt", "w") \subseteq {SavedAt}
    /\ args.onnx_trt = "trt" => Changed \subseteq {SavedAt}
    /\ (args.onnx_trt = "trt" /\ Changed \cap ExporterOutputs # {}) =>
           SavedAt \in ExporterOutputs
    /\ (args.onnx_trt = "onnx" /\ Exited /\ exit_status = <<0>>) =>
           Accessed("onnx", "w") = ExporterOutputs

C5_EngineOverGraphFile ==
    /\ args.onnx_trt = "trt" /\ Exited /\ exit_status = <<0>>
    /\ Accessed("trt", "r") = {<<"unet", "model.onnx">>}
    /\ args.save_path = <<".", "unet", "model.onnx">>
    /\ fs[<<"unet", "model.onnx">>].data = "engine"

\* C6: an exporter run that completes successfully has produced both graph
\* files; the output directory exists before any file is written, the
\* full-precision file is written before the reduced-precision copy is
\* derived, and the copy is derived from the file written in that run.
Index(s) == CHOOSE i \in DOMAIN steps : steps[i] = s

ExporterDone ==
    args.onnx_trt = "onnx" /\ (pc \in {"flush", "main_trt"} \/ exit_status = <<0>>)

C6_ExporterOrder ==
    /\ Accessed("onnx", "w") # {} => fs[<<"unet">>].kind = "dir"
    /\ Ran("fp16") => Ran("export") /\ Index("export") < Index("fp16")
    /\ Ran("save") => Ran("fp16") /\ Index("fp16") < Index("save")
    /\ new_onnx_model # NoEntry =>
           /\ new_onnx_model.src = "this"
           /\ fs[<<"unet", "model.onnx">>] = File("onnx32", "this", "none")
    /\ ExporterDone =>
           /\ fs[<<"unet", "model.onnx">>] = File("onnx32", "this", "none")
           /\ fs[<<"unet", "model_fp16.onnx">>] = File("onnx16", "this", "this")

C6_ExportedOverStaleFiles ==
    /\ ExporterDone /\ Exited
    /\ fs0[<<"unet", "model.onnx">>].data = "onnx32"
    /\ fs0[<<"unet", "model_fp16.onnx">>].data = "onnx16"

\* C7: each step of a pipeline is attempted at most once, and as soon as a
\* step fails the process ends without executing any later step.
LastStep == steps[Len(steps)]

C7_NoRetryNoRecovery ==
    /\ \A i, j \in DOMAIN steps : i # j => steps[i] # steps[j]
    /\ raised # "none" => Exited /\ LastStep = raised
    /\ ParseFailedRun => LastStep = "parse"
    /\ serialized_engine = "None" => LastStep = "build"

\* C8: the two sample input tuples differ in batch size and in sequence
\* length.
C8_SampleShapesDiffer ==
    check_inputs # <<>> =>
        /\ check_inputs[1].latent[1] # check_inputs[2].latent[1]
        /\ check_inputs[1].embed[1] # check_inputs[2].embed[1]
        /\ check_inputs[1].embed[2] # check_inputs[2].embed[2]

\* C9: for every image height and width, divisible by 8 or not, neither
\* pipeline rejects the configuration; both take the latent spatial
\* dimensions as the truncated quotients by 8, and the exporter's sample
\* dimensions equal the compiler's latent dimensions for the same image size.
Truncated(q, x) == 8 * q <= x /\ x < 8 * q + 8

C10_FailedCompileLeavesSavePath ==
    /\ Ran("open") => parse_success /\ serialized_engine # "unset"
    /\ (args.onnx_trt = "trt" /\ Exited /\ (ParseFailedRun \/ serialized_engine = "None")) =>
           fs[SavedAt] = fs0[SavedAt]

====
